---- MODULE Spec2Model ----
(***************************************************************************)
(* Model of langchain/document_loaders/asana.py: AsanaLoader, which lists  *)
(* the tasks of an Asana project or workspace through a client object and  *)
(* maps every raw task (a JSON dict) to a Document.                        *)
(*                                                                         *)
(* Python values are tagged pairs <<tag, payload>>:                        *)
(*   None  <<"none", "">>      str   <<"str", s>>                          *)
(*   dict  <<"dict", f>>       list  <<"list", seq>>                       *)
(* where f is a function whose DOMAIN is the set of keys present.  The     *)
(* outcome of evaluating an expression is <<"ok", value>> or               *)
(* <<"raise", exception type>>.                                            *)
(***************************************************************************)
EXTENDS Integers, Sequences, FiniteSets, TLC

VARIABLES
    requested, \* the id_type argument the constructor was called with, "" before any call
    pc,        \* position of the caller: "new", "ready", "config_error", "loop", "fetch", "map", "returned", "raised"
    loader,    \* the AsanaLoader object: [id, id_type], or NoLoader before/without construction
    projects,  \* load(): the projects already yielded by the local `projects` iterable
    projIter,  \* load(): what the `projects` iterable still holds: [rest, fails]
    project,   \* load(): the loop variable `project`
    tasks,     \* load(): the local list `tasks`
    calls,     \* every call made on the service client, in order
    yielded,   \* what each successful tasks.find_all listing yielded, in call order
    failed,    \* TRUE once a call on the service client has raised
    err,       \* the exception the caller sees, "" when none
    docs,      \* the list load() returned
    task,      \* mapping harness: the raw task handed to _task_to_doc
    result     \* mapping harness: what _task_to_doc(task) produced

vars == <<requested, pc, loader, projects, projIter, project, tasks, calls, yielded, failed, err, docs, task, result>>

-----------------------------------------------------------------------------
(* Bounds *)

MaxList == 2
MaxPopulated == 3
MaxProjects == 2
MaxTasks == 3

-----------------------------------------------------------------------------
(* Python values *)

None == <<"none", "">>
Str(s) == <<"str", s>>
Dict(f) == <<"dict", f>>
List(s) == <<"list", s>>

EmptyDict == Dict(<<>>)

Ok(v) == <<"ok", v>>
Raise(e) == <<"raise", e>>

IsOk(r) == r[1] = "ok"
IsRaise(r) == r[1] = "raise"

\* bool(v)
Truthy(v) ==
    CASE v[1] = "none" -> FALSE
      [] v[1] = "str"  -> v[2] # ""
      [] v[1] = "dict" -> DOMAIN v[2] # {}
      [] v[1] = "list" -> Len(v[2]) > 0

\* task.get(key, default) on the raw task dict
TaskGet(t, key, default) == IF key \in DOMAIN t THEN t[key] ELSE default

\* v.get(key, default) on an arbitrary value: only a dict has .get
DictGet(v, key, default) ==
    IF v[1] = "dict"
    THEN Ok(IF key \in DOMAIN v[2] THEN v[2][key] ELSE default)
    ELSE Raise("AttributeError")

\* v[key] with a str key: KeyError on a dict without it, TypeError on None, str and list
Subscript(v, key) ==
    IF v[1] = "dict"
    THEN IF key \in DOMAIN v[2] THEN Ok(v[2][key]) ELSE Raise("KeyError")
    ELSE Raise("TypeError")

\* "{v}" inside an f-string: str(v)
Format(v) ==
    CASE v[1] = "str"  -> v[2]
      [] v[1] = "none" -> "None"

\* A list display / comprehension over already evaluated elements: the first
\* element that raises aborts it, otherwise the list of the values.
Collect(rs) ==
    IF \E i \in 1..Len(rs) : IsRaise(rs[i])
    THEN rs[CHOOSE i \in 1..Len(rs) : IsRaise(rs[i]) /\ \A j \in 1..(i-1) : IsOk(rs[j])]
    ELSE Ok(List([i \in 1..Len(rs) |-> rs[i][2]]))

-----------------------------------------------------------------------------
(* AsanaLoader._task_to_doc, field by field *)

\* line 78: f"{task['name']}\n{task.get('notes', '')}"
TextContent(t) ==
    IF "name" \notin DOMAIN t THEN Raise("KeyError")
    ELSE Ok(Str(Format(t["name"]) \o "\n" \o Format(TaskGet(t, "notes", Str("")))))

\* line 81: task['name']
Title(t) == IF "name" \in DOMAIN t THEN Ok(t["name"]) ELSE Raise("KeyError")

\* line 82: task.get('gid', 'unknown')
Id(t) == Ok(TaskGet(t, "gid", Str("unknown")))

\* lines 83, 87, 89:
\*   task.get(key, {}).get('name', default) if task.get(key) else default
NameOf(t, key, default) ==
    IF Truthy(TaskGet(t, key, None))
    THEN DictGet(TaskGet(t, key, EmptyDict), "name", Str(default))
    ELSE Ok(Str(default))

Assignee(t) == NameOf(t, "assignee", "Unassigned")

\* line 84: task.get('due_on', 'No due date')
DueDate(t) == Ok(TaskGet(t, "due_on", Str("No due date")))

\* line 85: task.get('completed_at', 'Not completed')
CompletedAt(t) == Ok(TaskGet(t, "completed_at", Str("Not completed")))

\* line 86: [i['display_value'] for i in task.get("custom_fields")
\*             if task.get("custom_fields") is not None]
\* The iterable is evaluated before the filter: iterating None raises TypeError.
CustomFields(t) ==
    LET cf == TaskGet(t, "custom_fields", None)
    IN  CASE cf[1] = "none" -> Raise("TypeError")
          [] cf[1] = "list" ->
                Collect([i \in 1..Len(cf[2]) |-> Subscript(cf[2][i], "display_value")])

CompletedBy(t) == NameOf(t, "completed_by", "Unknown")

\* line 88: task.get('memberships', [{}])[0].get('project', {}).get('name', 'Unknown')
\*            if task.get('memberships') else 'Unknown'
ProjectName(t) ==
    IF Truthy(TaskGet(t, "memberships", None))
    THEN LET m == TaskGet(t, "memberships", List(<<EmptyDict>>))
             first == CASE m[1] = "list" -> m[2][1]
             proj == DictGet(first, "project", EmptyDict)
         IN  IF IsRaise(proj) THEN proj
             ELSE DictGet(proj[2], "name", Str("Unknown"))
    ELSE Ok(Str("Unknown"))

WorkspaceName(t) == NameOf(t, "workspace", "Unknown")

\* 'name' in i
HasName(i) ==
    CASE i[1] = "dict" -> Ok("name" \in DOMAIN i[2])
      [] i[1] = "none" -> Raise("TypeError")

\* lines 92-95: [i.get('name') for i in task.get("followers") if 'name' in i],
\* or [] when task.get("followers") is None
Followers(t) ==
    LET f == TaskGet(t, "followers", None)
    IN  CASE f[1] = "none" -> Ok(List(<<>>))
          [] f[1] = "list" ->
                LET tests == [i \in 1..Len(f[2]) |-> HasName(f[2][i])]
                IN  IF \E i \in 1..Len(tests) : IsRaise(tests[i])
                    THEN tests[CHOOSE i \in 1..Len(tests) : IsRaise(tests[i])]
                    ELSE LET kept == SelectSeq(f[2], LAMBDA i : HasName(i)[2])
                         IN  Collect([i \in 1..Len(kept) |-> DictGet(kept[i], "name", None)])

\* lines 77-97.  Python evaluates the text, then the dict display entry by
\* entry, then the followers; the first exception leaves the function.
task_to_doc(t) ==
    LET parts == << TextContent(t), Title(t), Id(t), Assignee(t), DueDate(t),
                    CompletedAt(t), CustomFields(t), CompletedBy(t),
                    ProjectName(t), WorkspaceName(t), Followers(t) >>
    IN  IF \E i \in 1..Len(parts) : IsRaise(parts[i])
        THEN parts[CHOOSE i \in 1..Len(parts) :
                     IsRaise(parts[i]) /\ \A j \in 1..(i-1) : IsOk(parts[j])]
        ELSE Ok([ page_content |-> parts[1][2][2],
                  metadata |-> [ title          |-> parts[2][2],
                                 id             |-> parts[3][2],
                                 assignee       |-> parts[4][2],
                                 due_date       |-> parts[5][2],
                                 completed_at   |-> parts[6][2],
                                 custom_fields  |-> parts[7][2],
                                 completed_by   |-> parts[8][2],
                                 project_name   |-> parts[9][2],
                                 workspace_name |-> parts[10][2],
                                 followers      |-> parts[11][2] ] ])

-----------------------------------------------------------------------------
(* Raw tasks handed to the mapping *)

Seqs(S, n) == UNION { [1..k -> S] : k \in 0..n }

OptionalKeys ==
    { "notes", "gid", "assignee", "due_on", "completed_at", "custom_fields",
      "completed_by", "memberships", "workspace", "followers" }

Persons == { None, EmptyDict, Dict([name |-> Str("Alice")]) }

CustomFieldEntries ==
    { Dict([display_value |-> Str("P1")]), Dict([display_value |-> None]), EmptyDict }

MembershipEntries ==
    { EmptyDict, Dict([project |-> None]), Dict([project |-> EmptyDict]),
      Dict([project |-> Dict([name |-> Str("Roadmap")])]),
      Dict([project |-> Dict([name |-> Str("Backlog")])]) }

FollowerEntries ==
    { Dict([name |-> Str("Bob")]), Dict([name |-> Str("Carol")]), Dict([gid |-> Str("9")]) }

ListsOf(S) == { List(s) : s \in Seqs(S, MaxList) }

\* The values a key of a raw task may carry when it is present
Options(key) ==
    CASE key = "notes"         -> { None, Str(""), Str("details") }
      [] key = "gid"           -> { Str("1") }
      [] key = "assignee"      -> Persons
      [] key = "due_on"        -> { None, Str("2023-05-01") }
      [] key = "completed_at"  -> { None, Str("2023-05-02T10:00:00Z") }
      [] key = "custom_fields" -> { None } \cup ListsOf(CustomFieldEntries)
      [] key = "completed_by"  -> Persons
      [] key = "memberships"   -> { None } \cup ListsOf(MembershipEntries)
      [] key = "workspace"     -> { None, EmptyDict, Dict([name |-> Str("Acme")]) }
      [] key = "followers"     -> { None } \cup ListsOf(FollowerEntries)

\* Only the title is present
BareTask == [k \in {"name"} |-> Str("Fix bug")]

With(t, key, v) == [k \in DOMAIN t \cup {key} |-> IF k = key THEN v ELSE t[k]]

RECURSIVE TasksWith(_)
TasksWith(keys) ==
    IF keys = {} THEN { BareTask }
    ELSE LET key == CHOOSE k \in keys : TRUE
         IN  { With(t, key, v) : t \in TasksWith(keys \ {key}), v \in Options(key) }

\* The raw tasks with at most n optional keys present
RawTasks(n) ==
    UNION { TasksWith(keys) :
              keys \in { K \in SUBSET OptionalKeys : Cardinality(K) <= n } }

Pending == <<"pending", "">>

-----------------------------------------------------------------------------
(* Construction *)

NoLoader == [id |-> "", id_type |-> "", client |-> ""]

Ids == { "100", "200" }
IdTypes == { "project", "workspace", "task" }

\* __init__ without the id_type check of lines 23-24
initUnchecked(client, id, id_type) ==
    /\ pc' = "ready"
    /\ err' = err
    /\ loader' = [id |-> id, id_type |-> id_type, client |-> client]

\* lines 15-28: AsanaLoader.__init__
init(client, id, id_type) ==
    IF id_type \notin { "project", "workspace" }
    THEN /\ pc' = "config_error"
         /\ err' = "ValueError"
         /\ loader' = loader
    ELSE /\ pc' = "ready"
         /\ err' = err
         /\ loader' = [id |-> id, id_type |-> id_type, client |-> client]

\* AsanaLoader(client, id, id_type)
Construct ==
    /\ pc = "new"
    /\ \E id \in Ids, id_type \in IdTypes :
          /\ requested' = id_type
          /\ init("supplied", id, id_type)
    /\ UNCHANGED <<projects, projIter, project, tasks, calls, yielded, failed, docs, task, result>>

\* langchain.utils.get_from_env: the variable's value, ValueError when unset or empty
get_from_env(env) == IF env # "" THEN Ok(Str(env)) ELSE Raise("ValueError")

\* lines 31-49: AsanaLoader.from_credentials.  Building the client object
\* (asana.Client.access_token) sends nothing to the service.
from_credentials ==
    /\ pc = "new"
    /\ \E id \in Ids, id_type \in IdTypes,
          access_token \in { None, Str("tok") }, env \in { "", "envtok" } :
          LET token == IF Truthy(access_token) THEN Ok(access_token) ELSE get_from_env(env)
          IN  /\ requested' = id_type
              /\ IF IsRaise(token)
                 THEN /\ pc' = "config_error"
                      /\ err' = token[2]
                      /\ loader' = loader
                 ELSE init(token[2][2], id, id_type)
    /\ UNCHANGED <<projects, projIter, project, tasks, calls, yielded, failed, docs, task, result>>

-----------------------------------------------------------------------------
(* The service client, as load() sees it *)

Gids == { "p1", "p2" }
ProjectRecords == { [gid |-> g] : g \in Gids }

\* {gid:"1", name:"Fix bug", notes:"details", assignee:{name:"Alice"},
\*  custom_fields:[{display_value:"P1"}], followers:[{name:"Bob"},{name:"Carol"}]}
ExampleTask ==
    [ gid |-> Str("1"), name |-> Str("Fix bug"), notes |-> Str("details"),
      assignee |-> Dict([name |-> Str("Alice")]),
      custom_fields |-> List(<<Dict([display_value |-> Str("P1")])>>),
      followers |-> List(<<Dict([name |-> Str("Bob")]), Dict([name |-> Str("Carol")])>>) ]

\* An untouched task with every requested field sent as null or empty
PlainTask ==
    [ gid |-> Str("2"), name |-> Str("Write docs"), notes |-> Str(""),
      completed_at |-> None, completed_by |-> None, assignee |-> None,
      followers |-> List(<<>>), custom_fields |-> List(<<>>) ]

\* A custom-field entry without display_value
PartialFieldTask ==
    [ gid |-> Str("3"), name |-> Str("Plan"),
      custom_fields |-> List(<<EmptyDict>>) ]

TaskPool == { ExampleTask, PlainTask, PartialFieldTask }

ProjectsFindAll(id) == [op |-> "projects.find_all", arg |-> id]
ProjectsFindById(id) == [op |-> "projects.find_by_id", arg |-> id]
TasksFindAll(gid) == [op |-> "tasks.find_all", arg |-> gid]

\* The exception of a failed call caught inside load(), which then carries on
ClientRaisesSwallowed ==
    /\ failed' = TRUE
    /\ pc' = "loop"
    /\ err' = err

\* A call on the client raised: the exception leaves load() (no try/except in lines 51-75)
ClientRaises ==
    /\ failed' = TRUE
    /\ pc' = "raised"
    /\ err' = "ExternalServiceError"

-----------------------------------------------------------------------------
(* AsanaLoader.load *)

\* lines 57-66: resolve `projects`, then tasks = []
ResolveProjects ==
    IF loader.id_type = "workspace"
    THEN /\ calls' = Append(calls, ProjectsFindAll(loader.id))
         /\ \/ ClientRaises /\ UNCHANGED projIter
            \/ /\ \E ps \in Seqs(ProjectRecords, MaxProjects), b \in BOOLEAN :
                     projIter' = [rest |-> ps, fails |-> b]
               /\ pc' = "loop"
               /\ UNCHANGED <<failed, err>>
    ELSE IF loader.id_type = "project"
    THEN /\ calls' = Append(calls, ProjectsFindById(loader.id))
         /\ \/ ClientRaises /\ UNCHANGED projIter
            \/ /\ \E p \in ProjectRecords : projIter' = [rest |-> <<p>>, fails |-> FALSE]
               /\ pc' = "loop"
               /\ UNCHANGED <<failed, err>>
    ELSE /\ pc' = "raised"
         /\ err' = "ValueError"
         /\ UNCHANGED <<calls, projIter, failed>>

LoadStart ==
    /\ pc = "ready"
    /\ ResolveProjects
    /\ tasks' = <<>>
    /\ UNCHANGED <<requested, loader, projects, project, yielded, docs, task, result>>

\* line 67: `for project in projects` asks the iterable for its next item
NextProject ==
    /\ pc = "loop"
    /\ IF projIter.rest # <<>>
       THEN /\ project' = Head(projIter.rest)
            /\ projects' = Append(projects, Head(projIter.rest))
            /\ projIter' = [projIter EXCEPT !.rest = Tail(@)]
            /\ pc' = "fetch"
            /\ UNCHANGED <<failed, err>>
       ELSE IF projIter.fails
       THEN ClientRaises /\ UNCHANGED <<project, projects, projIter>>
       ELSE /\ pc' = "map"
            /\ UNCHANGED <<project, projects, projIter, failed, err>>
    /\ UNCHANGED <<requested, loader, tasks, calls, yielded, docs, task, result>>

\* tasks.extend(listing)
Extend(ts, listing) == ts \o listing

\* lines 68-73: tasks.extend(self.client.tasks.find_all({"project": project["gid"], ...}))
FetchTasks ==
    /\ pc = "fetch"
    /\ calls' = Append(calls, TasksFindAll(project.gid))
    /\ \/ ClientRaises /\ UNCHANGED <<tasks, yielded>>
       \/ /\ \E ts \in Seqs(TaskPool, MaxTasks - Len(tasks)) :
                /\ tasks' = Extend(tasks, ts)
                /\ yielded' = Append(yielded, ts)
          /\ pc' = "loop"
          /\ UNCHANGED <<failed, err>>
    /\ UNCHANGED <<requested, loader, projects, projIter, project, docs, task, result>>

\* line 75: return [self._task_to_doc(task) for task in tasks]
MapTasks ==
    /\ pc = "map"
    /\ LET rs == Collect([i \in 1..Len(tasks) |-> task_to_doc(tasks[i])])
       IN  IF IsRaise(rs)
           THEN /\ pc' = "raised"
                /\ err' = rs[2]
                /\ docs' = docs
           ELSE /\ pc' = "returned"
                /\ err' = err
                /\ docs' = rs[2][2]
    /\ UNCHANGED <<requested, loader, projects, projIter, project, tasks, calls, yielded, failed, task, result>>

-----------------------------------------------------------------------------
(* Specifications *)

InitLoad ==
    /\ requested = ""
    /\ pc = "new"
    /\ loader = NoLoader
    /\ projects = <<>>
    /\ projIter = [rest |-> <<>>, fails |-> FALSE]
    /\ project = [gid |-> ""]
    /\ tasks = <<>>
    /\ calls = <<>>
    /\ yielded = <<>>
    /\ failed = FALSE
    /\ err = ""
    /\ docs = <<>>

Init ==
    /\ InitLoad
    /\ task = BareTask
    /\ result = Pending

Next ==
    \/ Construct
    \/ from_credentials
    \/ LoadStart
    \/ NextProject
    \/ FetchTasks
    \/ MapTasks

Spec == Init /\ [][Next]_vars

\* The mapping on its own: a raw task is drawn, then mapped
InitMap ==
    /\ InitLoad
    /\ task \in RawTasks(MaxPopulated)
    /\ result = Pending

MapTask ==
    /\ result = Pending
    /\ result' = task_to_doc(task)
    /\ UNCHANGED <<task, requested, pc, loader, projects, projIter, project, tasks, calls, yielded, failed, err, docs>>

NextMap == MapTask

SpecMap == InitMap /\ [][NextMap]_vars

-----------------------------------------------------------------------------
(* Properties of the mapping, checked under SpecMap *)

Mapped == result # Pending

\* The key is present and its value is not null
HasValue(t, key) == key \in DOMAIN t /\ t[key] # None

\* C1: the task with only a title maps to a document (no exception) whose
\* metadata carries every default: "Unassigned", "No due date",
\* "Not completed", "Unknown" three times, and two empty lists.
C1_BareTaskGetsDefaults ==
    (Mapped /\ task = BareTask) =>
        /\ IsOk(result)
        /\ result[2].metadata.assignee = Str("Unassigned")
        /\ result[2].metadata.due_date = Str("No due date")
        /\ result[2].metadata.completed_at = Str("Not completed")
        /\ result[2].metadata.completed_by = Str("Unknown")
        /\ result[2].metadata.project_name = Str("Unknown")
        /\ result[2].metadata.workspace_name = Str("Unknown")
        /\ result[2].metadata.custom_fields = List(<<>>)
        /\ result[2].metadata.followers = List(<<>>)

\* C5: whenever a document is produced, its content is the title, a newline,
\* and the notes text, the notes text being empty when the notes key is
\* missing or null.
C5_ContentIsTitleNewlineNotes ==
    (Mapped /\ IsOk(result)) =>
        result[2].page_content =
            task["name"][2] \o "\n" \o
                (IF HasValue(task, "notes") THEN task["notes"][2] ELSE "")

\* C9: whenever a document is produced, due_date is the task's due date when
\* it has one and "No due date" otherwise, completed_at is the completion
\* timestamp when it has one and "Not completed" otherwise, for a missing key
\* and for a null value alike; neither is ever null.
C9_DateDefaults ==
    (Mapped /\ IsOk(result)) =>
        /\ result[2].metadata.due_date =
              (IF HasValue(task, "due_on") THEN task["due_on"] ELSE Str("No due date"))
        /\ result[2].metadata.completed_at =
              (IF HasValue(task, "completed_at") THEN task["completed_at"]
               ELSE Str("Not completed"))
        /\ result[2].metadata.due_date # None
        /\ result[2].metadata.completed_at # None

\* The first membership entry references a project that has a name
FirstProjectNamed(t) ==
    /\ "memberships" \in DOMAIN t
    /\ t["memberships"][1] = "list"
    /\ Len(t["memberships"][2]) > 0
    /\ LET first == t["memberships"][2][1]
       IN  /\ first[1] = "dict"
           /\ "project" \in DOMAIN first[2]
           /\ first[2]["project"][1] = "dict"
           /\ "name" \in DOMAIN first[2]["project"][2]

\* C10: computing project_name never raises; it is the name of the project of
\* the first membership entry when there is one and it is named, and
\* "Unknown" in every other case (memberships missing, null or empty, first
\* entry without a project or with a null project, project without a name).
C10_ProjectNameOrUnknown ==
    Mapped =>
        /\ IsOk(ProjectName(task))
        /\ IsOk(result) =>
              result[2].metadata.project_name =
                  (IF FirstProjectNamed(task)
                   THEN task["memberships"][2][1][2]["project"][2]["name"]
                   ELSE Str("Unknown"))

-----------------------------------------------------------------------------
(* Properties of construction and load(), checked under Spec *)

Finished == pc \in { "returned", "raised" }

RECURSIVE Concat(_)
Concat(ss) == IF ss = <<>> THEN <<>> ELSE Head(ss) \o Concat(Tail(ss))

\* Some custom-field entry of the task has no display_value
LacksDisplayValue(t) ==
    /\ "custom_fields" \in DOMAIN t
    /\ t["custom_fields"][1] = "list"
    /\ \E i \in 1..Len(t["custom_fields"][2]) :
          /\ t["custom_fields"][2][i][1] = "dict"
          /\ "display_value" \notin DOMAIN t["custom_fields"][2][i][2]

\* C2: a workspace load in which no client call fails issues one
\* projects.find_all for the stored id, no find_by_id, then one tasks.find_all
\* per project yielded, in order and with that project's gid, and returns as
\* many documents as the listings yielded tasks.
C2_WorkspaceLoad ==
    (Finished /\ ~failed /\ loader.id_type = "workspace") =>
        /\ calls = <<ProjectsFindAll(loader.id)>> \o
                     [i \in 1..Len(projects) |-> TasksFindAll(projects[i].gid)]
        /\ Len(yielded) = Len(projects)
        /\ pc = "returned"
        /\ Len(docs) = Len(Concat(yielded))

\* C3: a project load in which no client call fails issues one
\* projects.find_by_id for the stored id, no projects.find_all, and one
\* tasks.find_all for the gid of the record looked up, and returns exactly the
\* documents of that one listing.
C3_ProjectLoad ==
    (Finished /\ ~failed /\ loader.id_type = "project") =>
        /\ Len(projects) = 1
        /\ calls = <<ProjectsFindById(loader.id), TasksFindAll(projects[1].gid)>>
        /\ Len(yielded) = 1
        /\ pc = "returned"
        /\ docs = [i \in 1..Len(yielded[1]) |-> task_to_doc(yielded[1][i])[2]]

\* C4: a constructor called with an id_type other than "project" and
\* "workspace" fails with ValueError, leaves no loader behind and makes no
\* call on the client; every loader that exists has a recognised id_type, and
\* load() never raises the ValueError of its own else branch.
C4_InvalidIdTypeRejectedAtConstruction ==
    /\ (requested \notin { "", "project", "workspace" }) =>
          /\ pc = "config_error"
          /\ err = "ValueError"
          /\ loader = NoLoader
          /\ calls = <<>>
    /\ (loader # NoLoader) => loader.id_type \in { "project", "workspace" }
    /\ (pc = "config_error") => (calls = <<>> /\ loader = NoLoader)
    /\ ~(pc = "raised" /\ err = "ValueError")

C4_Witness ==
    /\ requested = "task"
    /\ pc = "config_error"
    /\ err = "ValueError"

\* C6: a load in which no client call fails returns one document per
\* retrieved task, the i-th being the mapping of the i-th task of the
\* concatenated listings.
C6_OneDocumentPerTaskInOrder ==
    (Finished /\ ~failed) =>
        /\ pc = "returned"
        /\ Len(docs) = Len(Concat(yielded))
        /\ \A i \in 1..Len(docs) : Ok(docs[i]) = task_to_doc(Concat(yielded)[i])

\* C7: once a call on the client has failed, load() has ended with that
\* error and without documents, and from then on no call is made on the
\* client and nothing changes.
C7_ClientFailurePropagates ==
    [][ /\ failed' => (pc' = "raised" /\ err' = "ExternalServiceError" /\ docs' = <<>>)
        /\ (~failed /\ failed') => Len(calls') <= Len(calls) + 1
        /\ failed => UNCHANGED <<calls, pc, err, docs, failed>> ]_vars

C7_Witness ==
    /\ failed
    /\ pc = "raised"
    /\ Len(yielded) >= 1
    /\ calls[Len(calls)].op = "tasks.find_all"

\* C8: a load in which no client call fails and some retrieved task has a
\* custom-field entry without display_value still returns one document per
\* retrieved task.
C8_MissingDisplayValueTolerated ==
    (Finished /\ ~failed /\ \E i \in 1..Len(tasks) : LacksDisplayValue(tasks[i])) =>
        /\ pc = "returned"
        /\ Len(docs) = Len(tasks)

====
